---- MODULE Spec2Model ----
(***************************************************************************)
(* ImagePlay, IPL/src/processes/IPLMorphologyBinary.cpp: the binary        *)
(* morphology process (dilate, erode, open, close over a binary plane).    *)
(*                                                                         *)
(* Three specifications share the operators below:                         *)
(*   SpecFn   the primitives dilate/erode/open/close called once on every  *)
(*            bounded plane and kernel;                                    *)
(*   SpecPar  one processInputData call, its rows taken by parallel        *)
(*            workers (the OpenMP parallel for);                           *)
(*   Spec     the process object over a sequence of processInputData and   *)
(*            getResultData calls.                                         *)
(*                                                                         *)
(* IPL/src/processes/IPLCameraCalibration.cpp: the mode and the frame      *)
(* counter of the camera calibration process over a sequence of calls      *)
(* (SpecCal).                                                              *)
(***************************************************************************)
EXTENDS Integers, Sequences, FiniteSets, TLC

\* ------------------------------------------------------------------------
\* Bounds of the model
\* ------------------------------------------------------------------------
MaxW == 3
MaxH == 3
MaxIter == 2
MaxActive == 1
MaxFg == 2

\* ------------------------------------------------------------------------
\* Pixel values. A plane of IMAGE_BW holds 0.0 (background) or 1.0
\* (foreground); Unwritten stands for the content of a freshly constructed
\* plane that no code of this file has written yet.
\* ------------------------------------------------------------------------
Background == 0
Foreground == 1
Unwritten == 2

VARIABLES
    called,      \* SpecFn: the primitive that has been called, or "none"
    given,       \* SpecFn: the source plane as it was before the call
    callerSrc,   \* SpecFn: the plane the caller passes as src
    callerDst,   \* SpecFn: the plane the caller passes as dst
    kern,        \* SpecFn: the std::vector<bool> kernel passed
    iters,       \* SpecFn: the iteration count passed
    oob,         \* the bits found behind the end of the kernel vector
    pc,          \* where the processInputData call is: idle, rows, returned
    image,       \* the plane of the IPLImage passed to processInputData
    _result,     \* the plane of IPLMorphologyBinary::_result, or NULL
    _kernel,     \* IPLMorphologyBinary::_kernel (std::vector<int>)
    _iterations, \* IPLMorphologyBinary::_iterations
    _operation,  \* IPLMorphologyBinary::_operation
    progress,    \* std::atomic<int> progress
    totalLines,  \* int totalLines
    stage,       \* 1: the first primitive call is running, 2: the second
    srcPlane,       \* the plane applyMorphology reads (its parameter src)
    iter,        \* the loop variable i of applyMorphology
    rows,        \* the rows of the current parallel for: todo, taken, written
    workers,     \* the threads of the parallel for
    sink,        \* what notifyProgressEventHandler has received, in order
    retval,      \* what processInputData returned
    prior,       \* _result as it was when processInputData was entered
    got          \* what the last getResultData returned, or
                 \* NotCalled

\* IPLCameraCalibration
VARIABLES
    _mode,         \* IPLCameraCalibration::_mode
    _frameCounter, \* IPLCameraCalibration::_frameCounter
    _imagePoints,  \* _imagePoints.size(): the number of stored detections
    _preview,      \* what _preview holds: NULL, a copy of the input image or
                   \* the output image
    skipFrames,    \* the value of the property skipFrames the last call read
    midMode,       \* _mode as the last call left its DETECTION block
    calResult,     \* what runCalibration returned in the last call, if called
    branch,        \* which way the last call went: skipped or run
    calRet,        \* what the last call returned
    gotPreview,    \* what the last getResultData returned, or "not called"
    recent         \* the last calls, at most MaxSkip + 1 of them, oldest
                   \* first: the skipFrames each read and the way it went

calVars == <<_mode, _frameCounter, _imagePoints, _preview, skipFrames, midMode,
             calResult, branch, calRet, gotPreview, recent>>

fnVars == <<called, given, callerSrc, callerDst, kern, iters>>
parVars == <<pc, image, _result, _kernel, _iterations, _operation, progress,
             totalLines, stage, srcPlane, iter, rows, workers, sink, retval,
             prior, got>>
vars == <<called, given, callerSrc, callerDst, kern, iters, oob,
          pc, image, _result, _kernel, _iterations, _operation, progress,
          totalLines, stage, srcPlane, iter, rows, workers, sink, retval,
          prior, got,
          _mode, _frameCounter, _imagePoints, _preview, skipFrames, midMode,
          calResult, branch, calRet, gotPreview, recent>>

morphVars == <<called, given, callerSrc, callerDst, kern, iters, oob,
               pc, image, _result, _kernel, _iterations, _operation, progress,
               totalLines, stage, srcPlane, iter, rows, workers, sink, retval,
               prior, got>>

\* ------------------------------------------------------------------------
\* IPLImagePlane: width, height and the pixels, p(x,y) at flat index y*w+x
\* ------------------------------------------------------------------------
Plane(w, h, f) == [w |-> w, h |-> h, p |-> f]

Planes(w, h) == {Plane(w, h, f) : f \in [0..(w*h - 1) -> {Background, Foreground}]}

\* The planes with at most MaxFg foreground or at most MaxFg background pixels
Count(plane, v) == Cardinality({k \in DOMAIN plane.p : plane.p[k] = v})

SparsePlanes(w, h) ==
    {pl \in Planes(w, h) : Count(pl, Foreground) <= MaxFg \/ Count(pl, Background) <= MaxFg}

\* The planes with exactly one foreground pixel
SpeckPlanes(w, h) == {pl \in Planes(w, h) : Count(pl, Foreground) = 1}

NewPlane(w, h) == Plane(w, h, [k \in 0..(w*h - 1) |-> Unwritten])

P(plane, x, y) == plane.p[y * plane.w + x]

\* (int)sqrt((float)n)
ISqrt(n) == CHOOSE s \in 0..n : s*s <= n /\ (s+1)*(s+1) > n

\* int kernelOffset = (int)sqrt((float)kernel.size()) / 2;
kernelOffset(kernel) == ISqrt(Len(kernel)) \div 2

\* kernel[i] of a std::vector<bool>: unchecked; an index at or past size()
\* reads whatever bit lies there (oob).
KernelAt(kernel, i, bits) == IF i < Len(kernel) THEN kernel[i + 1] ELSE bits[i]

\* The kernel loops with zero padding: an out-of-bounds neighbour is not
\* skipped but read as a background pixel
RECURSIVE scanFromZeroPadded(_, _, _, _, _, _, _, _, _)
scanFromZeroPadded(T, src, x, y, kernel, off, bits, n, i) ==
    LET side == 2 * off + 1
        ky   == (n \div side) - off
        kx   == (n % side) - off
        oobs == x + kx < 0 \/ x + kx >= src.w \/ y + ky < 0 \/ y + ky >= src.h
    IN  IF n >= side * side THEN FALSE
        ELSE LET mask  == KernelAt(kernel, i, bits)
                 pixel == IF oobs THEN Background = T ELSE P(src, x + kx, y + ky) = T
             IN  IF mask /\ pixel THEN TRUE
                 ELSE scanFromZeroPadded(T, src, x, y, kernel, off, bits, n + 1, i + 1)

\* The two nested kernel loops of one pixel, flattened: n counts the window
\* cells in (ky, kx) row-major order, i is the running kernel index, which
\* the code advances only when the neighbour is in bounds. The result is the
\* value of cancel when the loops end.
RECURSIVE scanFrom(_, _, _, _, _, _, _, _, _)
scanFrom(T, src, x, y, kernel, off, bits, n, i) ==
    LET side == 2 * off + 1
        ky   == (n \div side) - off
        kx   == (n % side) - off
    IN  IF n >= side * side THEN FALSE
        ELSE IF x + kx < 0 \/ x + kx >= src.w \/ y + ky < 0 \/ y + ky >= src.h
             THEN scanFrom(T, src, x, y, kernel, off, bits, n + 1, i)
             ELSE LET mask  == KernelAt(kernel, i, bits)
                      pixel == (P(src, x + kx, y + ky) = T)
                  IN  IF mask /\ pixel THEN TRUE
                      ELSE scanFrom(T, src, x, y, kernel, off, bits, n + 1, i + 1)

\* The kernel loops without the bounds test: every window cell is read
RECURSIVE readsFromUnguarded(_, _, _, _, _, _, _, _, _)
readsFromUnguarded(T, src, x, y, kernel, off, bits, n, i) ==
    LET side == 2 * off + 1
        ky   == (n \div side) - off
        kx   == (n % side) - off
    IN  IF n >= side * side THEN {}
        ELSE {<<x + kx, y + ky>>}
                \cup readsFromUnguarded(T, src, x, y, kernel, off, bits, n + 1, i)

\* The coordinates at which the kernel loops of one pixel read src (auto &p =
\* src.p(x+kx,y+ky)): the cells that pass the bounds test, up to the cell
\* that sets cancel
RECURSIVE readsFrom(_, _, _, _, _, _, _, _, _)
readsFrom(T, src, x, y, kernel, off, bits, n, i) ==
    LET side == 2 * off + 1
        ky   == (n \div side) - off
        kx   == (n % side) - off
    IN  IF n >= side * side THEN {}
        ELSE IF x + kx < 0 \/ x + kx >= src.w \/ y + ky < 0 \/ y + ky >= src.h
             THEN readsFrom(T, src, x, y, kernel, off, bits, n + 1, i)
             ELSE LET mask  == KernelAt(kernel, i, bits)
                      pixel == (P(src, x + kx, y + ky) = T)
                  IN  {<<x + kx, y + ky>>}
                         \cup (IF mask /\ pixel THEN {}
                               ELSE readsFrom(T, src, x, y, kernel, off, bits, n + 1, i + 1))

\* The values of the running kernel index at which the kernel loops of one
\* pixel read a flag (bool mask = kernel[i++])
RECURSIVE indicesFrom(_, _, _, _, _, _, _, _, _)
indicesFrom(T, src, x, y, kernel, off, bits, n, i) ==
    LET side == 2 * off + 1
        ky   == (n \div side) - off
        kx   == (n % side) - off
    IN  IF n >= side * side THEN {}
        ELSE IF x + kx < 0 \/ x + kx >= src.w \/ y + ky < 0 \/ y + ky >= src.h
             THEN indicesFrom(T, src, x, y, kernel, off, bits, n + 1, i)
             ELSE LET mask  == KernelAt(kernel, i, bits)
                      pixel == (P(src, x + kx, y + ky) = T)
                  IN  {i} \cup (IF mask /\ pixel THEN {}
                                ELSE indicesFrom(T, src, x, y, kernel, off, bits,
                                                 n + 1, i + 1))

\* pixelValue = cancel ? T : F
pixelValue(T, F, src, x, y, kernel, off, bits) ==
    IF scanFrom(T, src, x, y, kernel, off, bits, 0, 0) THEN T ELSE F

\* One row y of the parallel for: every dst.p(x,y), x < src.width()
scanRow(T, F, src, dst, y, kernel, off, bits) ==
    [dst EXCEPT !.p = [k \in DOMAIN dst.p |->
        IF k \div dst.w = y /\ k % dst.w < src.w
        THEN pixelValue(T, F, src, k % dst.w, y, kernel, off, bits)
        ELSE dst.p[k]]]

\* All rows y < src.height() of one iteration
RECURSIVE scanRows(_, _, _, _, _, _, _, _)
scanRows(T, F, src, dst, y, kernel, off, bits) ==
    IF y >= src.h THEN dst
    ELSE scanRows(T, F, src, scanRow(T, F, src, dst, y, kernel, off, bits), y + 1,
                  kernel, off, bits)

\* std::swap(src, dst): the two planes exchange their values
swap(st) == [src |-> st.dst, dst |-> st.src]

\* The iteration loop of applyMorphology: write dst from src, then swap
RECURSIVE iterate(_, _, _, _, _, _, _, _)
iterate(T, F, i, st, iterations, kernel, off, bits) ==
    IF i < iterations
    THEN iterate(T, F, i + 1,
                 swap([src |-> st.src,
                       dst |-> scanRows(T, F, st.src, st.dst, 0, kernel, off, bits)]),
                 iterations, kernel, off, bits)
    ELSE st

applyMorphologyNoFinalSwap(T, F, src, dst, iterations, kernel, bits) ==
    iterate(T, F, 0, [src |-> src, dst |-> dst], iterations, kernel,
            kernelOffset(kernel), bits)

\* applyMorphology<T,F>(src, dst, iterations, kernel, cb): both planes are
\* passed by reference; the result is the pair of planes on return.
applyMorphology(T, F, src, dst, iterations, kernel, bits) ==
    swap(iterate(T, F, 0, [src |-> src, dst |-> dst], iterations, kernel,
                 kernelOffset(kernel), bits))

\* dilate without the private copy: applyMorphology gets the caller's plane
dilateNoCopy(src, dst, iterations, kernel, bits) ==
    applyMorphology(Foreground, Background, src, dst, iterations, kernel, bits)

\* dilate: IPLImagePlane input(src); applyMorphology<1,0>(input, dst, ...).
\* src is a const reference: the caller's plane is left as it was.
dilate(src, dst, iterations, kernel, bits) ==
    LET input == src
        r == applyMorphology(Foreground, Background, input, dst, iterations, kernel, bits)
    IN  [src |-> src, dst |-> r.dst]

\* erode instantiated with the template arguments of dilate
erodeAsDilate(src, dst, iterations, kernel, bits) ==
    LET input == src
        r == applyMorphology(Foreground, Background, input, dst, iterations, kernel, bits)
    IN  [src |-> src, dst |-> r.dst]

\* erode: IPLImagePlane input(src); applyMorphology<0,1>(input, dst, ...)
erode(src, dst, iterations, kernel, bits) ==
    LET input == src
        r == applyMorphology(Background, Foreground, input, dst, iterations, kernel, bits)
    IN  [src |-> src, dst |-> r.dst]

\* open without the exchange between its stages: dilate reads the copy of
\* the source again
openNoSwap(src, dst, iterations, kernel, bits) ==
    LET input == src
        e == erode(input, dst, iterations, kernel, bits)
        d == dilate(e.src, e.dst, iterations, kernel, bits)
    IN  [src |-> src, dst |-> d.dst]

\* open: input(src); erode(input,dst); std::swap(input,dst); dilate(input,dst)
open(src, dst, iterations, kernel, bits) ==
    LET input == src
        e == erode(input, dst, iterations, kernel, bits)
        s == swap([src |-> e.src, dst |-> e.dst])
        d == dilate(s.src, s.dst, iterations, kernel, bits)
    IN  [src |-> src, dst |-> d.dst]

\* close without the exchange between its stages: erode reads the copy of
\* the source again
closeNoSwap(src, dst, iterations, kernel, bits) ==
    LET input == src
        d == dilate(input, dst, iterations, kernel, bits)
        e == erode(d.src, d.dst, iterations, kernel, bits)
    IN  [src |-> src, dst |-> e.dst]

\* close: input(src); dilate(input,dst); std::swap(input,dst); erode(input,dst)
close(src, dst, iterations, kernel, bits) ==
    LET input == src
        d == dilate(input, dst, iterations, kernel, bits)
        s == swap([src |-> d.src, dst |-> d.dst])
        e == erode(s.src, s.dst, iterations, kernel, bits)
    IN  [src |-> src, dst |-> e.dst]

\* ------------------------------------------------------------------------
\* IPLCameraCalibration: the mode and the frame counter
\* ------------------------------------------------------------------------
MaxSkip == 2

DETECTION == "DETECTION"
CALIBRATION == "CALIBRATION"
CALIBRATED == "CALIBRATED"

\* if(_imagePoints.size() > 10)
GoodImages == 10

\* init(): _preview = NULL; _mode = DETECTION; _frameCounter = 0; the vector
\* _imagePoints of the new object is empty, skipFrames has its default
InitCalibration ==
    /\ _mode = DETECTION
    /\ _frameCounter = 0
    /\ _imagePoints = 0
    /\ _preview = "NULL"
    /\ skipFrames = 10
    /\ midMode = DETECTION
    /\ calResult = "not run"
    /\ branch = "none"
    /\ calRet = FALSE
    /\ gotPreview = "not called"
    /\ recent = << >>

\* The frame test with <= for <
skipInclusive(counter, s) == counter <= s

\* if(_frameCounter < skipFrames): the frame is skipped
skip(counter, s) == counter < s

\* recent with one more call, the oldest dropped beyond MaxSkip + 1
Remember(calls, c) ==
    LET all == Append(calls, c)
    IN  IF Len(all) > MaxSkip + 1 THEN Tail(all) ELSE all

\* The block if(_mode == DETECTION): a found target is stored, and with more
\* than 10 stored detections the mode becomes CALIBRATION. found is what the
\* detector returned (not set at all for a targetType outside 0..2).
detection(mode, points, found) ==
    IF mode = DETECTION
    THEN LET n == IF found THEN points + 1 ELSE points
         IN  [mode |-> IF n > GoodImages THEN CALIBRATION ELSE DETECTION, points |-> n]
    ELSE [mode |-> mode, points |-> points]

\* The block if(_mode == CALIBRATION) with a failed calibration falling back
\* to DETECTION
calibrationRestartOnFailure(mode, result) ==
    IF mode = CALIBRATION THEN (IF result THEN CALIBRATED ELSE DETECTION) ELSE mode

\* The block if(_mode == CALIBRATION): result is what runCalibration returned
calibration(mode, result) ==
    IF mode = CALIBRATION THEN (IF result THEN CALIBRATED ELSE CALIBRATION) ELSE mode

\* bool IPLCameraCalibration::processInputData(IPLData*, int, bool)
CameraCalibration_processInputData ==
    /\ \E s \in 1..MaxSkip, found \in BOOLEAN, result \in BOOLEAN :
          /\ skipFrames' = s
          /\ recent' = Remember(recent, [s |-> s,
                 way |-> IF skip(_frameCounter, s) THEN "skipped" ELSE "run"])
          /\ IF skip(_frameCounter, s)
             THEN /\ _preview' = "input"
                  /\ _frameCounter' = _frameCounter + 1
                  /\ midMode' = _mode
                  /\ calResult' = "not run"
                  /\ branch' = "skipped"
                  /\ UNCHANGED <<_mode, _imagePoints>>
             ELSE LET d == detection(_mode, _imagePoints, found)
                  IN  /\ _frameCounter' = 0
                      /\ _imagePoints' = d.points
                      /\ midMode' = d.mode
                      /\ _mode' = calibration(d.mode, result)
                      /\ calResult' = IF d.mode # CALIBRATION THEN "not run"
                                      ELSE IF result THEN "true" ELSE "false"
                      /\ _preview' = "output"
                      /\ branch' = "run"
    /\ calRet' = TRUE
    /\ UNCHANGED gotPreview
    /\ UNCHANGED morphVars

\* IPLData* IPLCameraCalibration::getResultData(int): returns _preview
CameraCalibration_getResultData ==
    /\ gotPreview' = _preview
    /\ UNCHANGED <<_mode, _frameCounter, _imagePoints, _preview, skipFrames,
                   midMode, calResult, branch, calRet, recent>>
    /\ UNCHANGED morphVars

NextCal == CameraCalibration_processInputData \/ CameraCalibration_getResultData

\* ------------------------------------------------------------------------
\* The process object
\* ------------------------------------------------------------------------
NULL == [w |-> 0, h |-> 0, p |-> << >>]

NotCalled == [w |-> 0 - 1, h |-> 0 - 1, p |-> << >>]

NumWorkers == 2
ParMaxW == 1
ParMaxH == 2

DILATE == 0
ERODE == 1
OPEN == 2
CLOSE == 3

\* The default kernel of init(): nine ints, 1 at index 4
DefaultKernel == [i \in 1..9 |-> IF i = 5 THEN 1 ELSE 0]

\* for (auto &i: _kernel) kernel.emplace_back(i > 0);
BoolKernel(ints) == [i \in 1..Len(ints) |-> ints[i] > 0]

\* Kernels of odd side 1 and 3 with at most MaxActive active cells, and the
\* all-active 3x3 kernel.
ActiveCount(k) == Cardinality({j \in DOMAIN k : k[j]})

\* 3x3, the left and the right neighbour active: 0 0 0 / 1 0 1 / 0 0 0
HorizontalPair == [i \in 1..9 |-> i \in {4, 6}]

Kernels ==
    {k \in [1..1 -> BOOLEAN] \cup [1..9 -> BOOLEAN] :
        ActiveCount(k) <= MaxActive \/ ActiveCount(k) = Len(k)}
    \cup {HorizontalPair}

\* The kernel property values of the object specifications (std::vector<int>)
ParKernels ==
    { DefaultKernel,
      [i \in 1..9 |-> IF i = 6 THEN 0 - 1 ELSE 2],
      <<1, 0>> }

\* The bits behind the kernel's end that the window can reach
OobBits(kernel) ==
    LET side == 2 * kernelOffset(kernel) + 1
    IN  [Len(kernel)..(side * side - 1) -> BOOLEAN]

Idle == [st |-> "idle", y |-> 0, val |-> 0, it |-> 0, stg |-> 0]

\* init(): _result = NULL, the default kernel, _operation = 0, _iterations = 1
InitObject ==
    /\ pc = "idle"
    /\ image = NULL
    /\ _result = NULL
    /\ _kernel = DefaultKernel
    /\ _iterations = 1
    /\ _operation = 0
    /\ progress = 0
    /\ totalLines = 0
    /\ stage = 0
    /\ srcPlane = NULL
    /\ iter = 0
    /\ rows = << >>
    /\ workers = [w \in 1..NumWorkers |-> Idle]
    /\ sink = << >>
    /\ retval = FALSE
    /\ prior = NULL
    /\ got = NotCalled

\* The template argument T of the applyMorphology instance a stage runs
\* (F is the other value): dilate is <1,0>, erode is <0,1>; open runs erode
\* then dilate, close runs dilate then erode.
TruthOf(op, st) ==
    IF op = DILATE THEN Foreground
    ELSE IF op = ERODE THEN Background
    ELSE IF op = OPEN THEN (IF st = 1 THEN Background ELSE Foreground)
    ELSE (IF st = 1 THEN Foreground ELSE Background)

Other(v) == IF v = Foreground THEN Background ELSE Foreground

\* Control after a primitive is entered (enterStage) and after its iteration
\* loop ends (leaveStage). enterStage(st, s, d, ..): the primitive copies its
\* source to s and calls applyMorphology(s, d); with iterations < 1 the loop
\* body never runs. leaveStage(st, s, d, ..): the loop is over with src = s
\* and dst = d; the swap after the loop exchanges them; in open and close
\* the first stage is followed by std::swap(input, dst) and the second call.
RECURSIVE enterStage(_, _, _, _, _, _)
RECURSIVE leaveStage(_, _, _, _, _, _)
enterStage(st, s, d, n, op, img) ==
    IF n >= 1
    THEN [pc |-> "rows", stage |-> st, src |-> s, dst |-> d]
    ELSE leaveStage(st, s, d, n, op, img)

leaveStage(st, s, d, n, op, img) ==
    LET after == swap([src |-> s, dst |-> d])
    IN  IF op \in {OPEN, CLOSE} /\ st = 1
        THEN enterStage(2, after.dst, img, n, op, img)
        ELSE [pc |-> "returned", stage |-> st, src |-> NULL, dst |-> after.dst]

\* totalLines without the doubling of the OPEN and CLOSE cases
TotalLinesNotDoubled(op, h, n) == h * n

\* int totalLines = image->height()*_iterations; and totalLines *= 2 in the
\* OPEN and CLOSE cases of the switch
TotalLines(op, h, n) == (IF op \in {OPEN, CLOSE} THEN 2 ELSE 1) * h * n

AllTodo(h) == [y \in 0..(h - 1) |-> "todo"]

\* processInputData up to the first parallel for (or to its return when
\* there is none): the previous result is deleted and a new image allocated,
\* the properties are read, the switch selects the primitive.
Begin ==
    /\ pc = "idle"
    /\ \E w \in 1..ParMaxW, h \in 1..ParMaxH : image' \in SpeckPlanes(w, h)
    /\ _kernel' \in ParKernels
    /\ _iterations' \in 0..MaxIter
    /\ _operation' \in 0..4
    /\ oob' \in OobBits(BoolKernel(_kernel'))
    /\ progress' = 0
    /\ totalLines' = TotalLines(_operation', image'.h, _iterations')
    /\ LET fresh == NewPlane(image'.w, image'.h)
           c == IF _operation' \in {DILATE, ERODE, OPEN, CLOSE}
                THEN enterStage(1, image', fresh, _iterations', _operation', image')
                ELSE [pc |-> "returned", stage |-> 0, src |-> NULL, dst |-> fresh]
       IN  /\ pc' = c.pc
           /\ stage' = c.stage
           /\ srcPlane' = c.src
           /\ _result' = c.dst
           /\ retval' = (c.pc = "returned")
    /\ iter' = 0
    /\ rows' = AllTodo(image'.h)
    /\ sink' = << >>
    /\ prior' = _result
    /\ got' = NotCalled
    /\ UNCHANGED <<workers, called, given, callerSrc, callerDst, kern, iters>>
    /\ UNCHANGED calVars

\* A thread of the parallel for takes a row y that no thread has taken
TakeRow(w, y) ==
    /\ pc = "rows"
    /\ workers[w].st = "idle"
    /\ rows[y] = "todo"
    /\ rows' = [rows EXCEPT ![y] = "taken"]
    /\ workers' = [workers EXCEPT ![w] =
                      [st |-> "scan", y |-> y, val |-> 0, it |-> iter, stg |-> stage]]
    /\ UNCHANGED <<pc, image, _result, _kernel, _iterations, _operation, progress,
                   totalLines, stage, srcPlane, iter, sink, retval, oob, prior, got>>
    /\ UNCHANGED fnVars
    /\ UNCHANGED calVars

\* The thread writes every pixel of its row of dst from src, then enters
\* progressCallback(): ++progress on the atomic counter
ScanRow(w) ==
    /\ workers[w].st = "scan"
    /\ LET T == TruthOf(_operation, stage)
           k == BoolKernel(_kernel)
       IN  _result' = scanRow(T, Other(T), srcPlane, _result, workers[w].y, k,
                              kernelOffset(k), oob)
    /\ progress' = progress + 1
    /\ rows' = [rows EXCEPT ![workers[w].y] = "written"]
    /\ workers' = [workers EXCEPT ![w].st = "notify", ![w].val = progress + 1]
    /\ UNCHANGED <<pc, image, _kernel, _iterations, _operation,
                   totalLines, stage, srcPlane, iter, sink, retval, oob, prior, got>>
    /\ UNCHANGED fnVars
    /\ UNCHANGED calVars

\* notifyProgressEventHandler(100*((float)++progress)/totalLines), with the
\* value the thread's own increment returned
Notify(w) ==
    /\ workers[w].st = "notify"
    /\ sink' = Append(sink, (100 * workers[w].val) \div totalLines)
    /\ workers' = [workers EXCEPT ![w] = Idle]
    /\ UNCHANGED <<pc, image, _result, _kernel, _iterations, _operation, progress,
                   totalLines, stage, srcPlane, iter, rows, retval, oob, prior, got>>
    /\ UNCHANGED fnVars
    /\ UNCHANGED calVars

\* A parallel for without its barrier: the loop is left once no row is left
\* to hand out
NoBarrier == \A y \in DOMAIN rows : rows[y] # "todo"

\* The parallel for ends when every thread is through every row (its
\* implicit barrier)
Barrier ==
    /\ \A y \in DOMAIN rows : rows[y] = "written"
    /\ \A w \in DOMAIN workers : workers[w].st = "idle"

\* After the parallel for: std::swap(src, dst), ++i, and either the next
\* iteration's parallel for or the rest of the call up to the next one
EndPass ==
    /\ pc = "rows"
    /\ Barrier
    /\ LET after == swap([src |-> srcPlane, dst |-> _result])
           c == IF iter + 1 < _iterations
                THEN [pc |-> "rows", stage |-> stage, src |-> after.src, dst |-> after.dst]
                ELSE leaveStage(stage, after.src, after.dst, _iterations, _operation, image)
       IN  /\ pc' = c.pc
           /\ stage' = c.stage
           /\ srcPlane' = c.src
           /\ _result' = c.dst
           /\ retval' = (c.pc = "returned")
           /\ iter' = IF c.stage = stage /\ c.pc = "rows" THEN iter + 1 ELSE 0
    /\ rows' = AllTodo(image.h)
    /\ UNCHANGED <<image, _kernel, _iterations, _operation, progress, totalLines,
                   workers, sink, oob, prior, got>>
    /\ UNCHANGED fnVars
    /\ UNCHANGED calVars

InitPar ==
    /\ InitObject
    /\ called = "none"
    /\ given = NULL
    /\ callerSrc = NULL
    /\ callerDst = NULL
    /\ kern = << >>
    /\ iters = 0
    /\ oob = << >>
    /\ InitCalibration

NextPar ==
    \/ Begin
    \/ \E w \in 1..NumWorkers, y \in 0..(ParMaxH - 1) : y \in DOMAIN rows /\ TakeRow(w, y)
    \/ \E w \in 1..NumWorkers : ScanRow(w)
    \/ \E w \in 1..NumWorkers : Notify(w)
    \/ EndPass

SpecPar == InitPar /\ [][NextPar]_vars

\* ------------------------------------------------------------------------
\* Spec: the object over a sequence of calls, in the build without OpenMP
\* (the pragma is ignored and the rows run in order on the calling thread)
\* ------------------------------------------------------------------------
\* The images and kernel property values the calls are made with
SeqImages ==
    { Plane(1, 1, [k \in 0..0 |-> Foreground]),
      Plane(2, 1, [k \in 0..1 |-> IF k = 0 THEN Foreground ELSE Background]),
      Plane(2, 2, [k \in 0..3 |-> IF k = 3 THEN Background ELSE Foreground]) }

SeqKernels == { DefaultKernel, [i \in 1..9 |-> 1], <<1, 0>> }

\* The number of progressCallback() calls of one processInputData call
Callbacks(op, n, h) ==
    IF op \notin {DILATE, ERODE, OPEN, CLOSE} \/ n < 1 THEN 0
    ELSE (IF op \in {OPEN, CLOSE} THEN 2 ELSE 1) * h * n

\* The switch of processInputData on a freshly allocated _result: the planes
\* of image and _result when the selected primitive has returned; no case is
\* selected for an operation outside 0..3
processed(img, k, n, op, bits) ==
    LET fresh == NewPlane(img.w, img.h)
        kernel == BoolKernel(k)
    IN  IF op = DILATE THEN dilate(img, fresh, n, kernel, bits)
        ELSE IF op = ERODE THEN erode(img, fresh, n, kernel, bits)
        ELSE IF op = OPEN THEN open(img, fresh, n, kernel, bits)
        ELSE IF op = CLOSE THEN close(img, fresh, n, kernel, bits)
        ELSE [src |-> img, dst |-> fresh]

\* bool processInputData(IPLImage* image, int, bool), as one step
processInputData ==
    /\ pc \in {"idle", "returned"}
    /\ \E img \in SeqImages, k \in SeqKernels, n \in 0..MaxIter, op \in 0..4 :
       \E bits \in OobBits(BoolKernel(k)) :
       \E r \in {processed(img, k, n, op, bits)} :
             /\ prior' = _result
             /\ _kernel' = k
             /\ _iterations' = n
             /\ _operation' = op
             /\ oob' = bits
             /\ image' = r.src
             /\ _result' = r.dst
             /\ progress' = Callbacks(op, n, img.h)
             /\ totalLines' = TotalLines(op, img.h, n)
             /\ sink' = [j \in 1..progress' |-> (100 * j) \div totalLines']
    /\ retval' = TRUE
    /\ pc' = "returned"
    /\ got' = NotCalled
    /\ UNCHANGED <<stage, srcPlane, iter, rows, workers>>
    /\ UNCHANGED fnVars
    /\ UNCHANGED calVars

\* IPLImage* getResultData(int) { return _result; }
getResultData ==
    /\ pc \in {"idle", "returned"}
    /\ got' = _result
    /\ UNCHANGED <<pc, image, _result, _kernel, _iterations, _operation, progress,
                   totalLines, stage, srcPlane, iter, rows, workers, sink, retval,
                   prior, oob>>
    /\ UNCHANGED fnVars
    /\ UNCHANGED calVars

Init == InitPar

Next == processInputData \/ getResultData

Spec == Init /\ [][Next]_vars

\* ------------------------------------------------------------------------
\* SpecFn: one call of a primitive on bounded inputs
\* ------------------------------------------------------------------------
InitFn ==
    /\ called = "none"
    /\ \E w \in 1..MaxW, h \in 1..MaxH :
          /\ callerSrc \in SparsePlanes(w, h)
          /\ callerDst = NewPlane(w, h)
    /\ given = callerSrc
    /\ kern \in Kernels
    /\ iters \in 0..MaxIter
    /\ oob \in OobBits(kern)
    /\ InitObject
    /\ InitCalibration

Call(name, r) ==
    /\ called = "none"
    /\ called' = name
    /\ callerSrc' = r.src
    /\ callerDst' = r.dst
    /\ UNCHANGED <<given, kern, iters, oob>>
    /\ UNCHANGED parVars
    /\ UNCHANGED calVars

CallDilate == Call("dilate", dilate(callerSrc, callerDst, iters, kern, oob))
CallErode  == Call("erode", erode(callerSrc, callerDst, iters, kern, oob))
CallOpen   == Call("open", open(callerSrc, callerDst, iters, kern, oob))
CallClose  == Call("close", close(callerSrc, callerDst, iters, kern, oob))

NextFn == CallDilate \/ CallErode \/ CallOpen \/ CallClose

SpecFn == InitFn /\ [][NextFn]_vars

\* ------------------------------------------------------------------------
\* SpecIdx: one call of a primitive with a kernel of side 1, 2 or 3
\* ------------------------------------------------------------------------
\* Kernels of length 1, 4 and 9 with at most MaxActive active cells or all
\* cells active
SquareKernels ==
    {k \in [1..1 -> BOOLEAN] \cup [1..4 -> BOOLEAN] \cup [1..9 -> BOOLEAN] :
        ActiveCount(k) <= MaxActive \/ ActiveCount(k) = Len(k)}

InitIdx ==
    /\ called = "none"
    /\ \E w \in 1..MaxW, h \in 1..MaxH :
          /\ callerSrc \in SpeckPlanes(w, h)
          /\ callerDst = NewPlane(w, h)
    /\ given = callerSrc
    /\ kern \in SquareKernels
    /\ iters \in 1..MaxIter
    /\ oob \in OobBits(kern)
    /\ InitObject
    /\ InitCalibration

SpecIdx == InitIdx /\ [][NextFn]_vars

\* ------------------------------------------------------------------------
\* SpecCal: the camera calibration object over a sequence of calls
\* ------------------------------------------------------------------------
InitCal == InitCalibration /\ InitPar

SpecCal == InitCal /\ [][NextCal]_vars

\* ------------------------------------------------------------------------
\* Reference notions the claims are stated with
\* ------------------------------------------------------------------------
\* The single-pass transform of a plane: one iteration written to a fresh plane
OnePass(T, F, X, kernel, bits) ==
    scanRows(T, F, X, NewPlane(X.w, X.h), 0, kernel, kernelOffset(kernel), bits)

\* Generation N: the single-pass transform applied N times in succession
RECURSIVE Gen(_, _, _, _, _, _)
Gen(T, F, X, N, kernel, bits) ==
    IF N = 0 THEN X ELSE Gen(T, F, OnePass(T, F, X, kernel, bits), N - 1, kernel, bits)

OddSquare(kernel) ==
    \E side \in 1..Len(kernel) : side * side = Len(kernel) /\ side % 2 = 1

\* The kernel init() sets: 3x3, only the centre cell (flat index 4) active
IdentityKernel == [i \in 1..9 |-> i = 5]

\* Dilation as the claim states it: the flag at flat index
\* (dy+offset)*side + (dx+offset) is paired with the neighbour (x+dx, y+dy)
DilatedAt(X, kernel, x, y) ==
    LET off  == kernelOffset(kernel)
        side == 2 * off + 1
    IN  \E dy \in (0 - off)..off, dx \in (0 - off)..off :
           /\ x + dx >= 0 /\ x + dx < X.w /\ y + dy >= 0 /\ y + dy < X.h
           /\ P(X, x + dx, y + dy) = Foreground
           /\ kernel[(dy + off) * side + (dx + off) + 1]

\* ------------------------------------------------------------------------
\* Claims on the primitives (SpecFn)
\* ------------------------------------------------------------------------
\* C2: for every N >= 1, when dilate or erode returns, the caller's
\* destination plane holds generation N of the source.
C2_DestinationHoldsGenerationN ==
    /\ (called = "dilate" /\ iters >= 1) =>
           callerDst = Gen(Foreground, Background, given, iters, kern, oob)
    /\ (called = "erode" /\ iters >= 1) =>
           callerDst = Gen(Background, Foreground, given, iters, kern, oob)

\* Both parities of N happen, on a plane that each pass changes
C2_Witness ==
    /\ called = "dilate" /\ iters = 2
    /\ callerDst # given
    /\ callerDst # Gen(Foreground, Background, given, 1, kern, oob)

\* C3: one Dilate iteration with an odd-sided square kernel writes foreground
\* at (x, y) exactly when some in-bounds foreground neighbour (x+dx, y+dy) has
\* its kernel flag at flat index (dy+offset)*side + (dx+offset) active.
C3_DilatePairsFlagWithOffset ==
    (called = "dilate" /\ iters = 1 /\ OddSquare(kern)) =>
        \A x \in 0..(given.w - 1), y \in 0..(given.h - 1) :
            (P(callerDst, x, y) = Foreground) <=> DilatedAt(given, kern, x, y)

\* C4: with the identity kernel and one iteration, Dilate and Erode return a
\* plane equal to the input at every pixel.
C4_IdentityKernelIsIdentity ==
    (called \in {"dilate", "erode"} /\ iters = 1 /\ kern = IdentityKernel) =>
        callerDst = given

\* C5: with iterations = 1, open(open(X)) = open(X) and
\* close(close(X)) = close(X), for every plane and kernel.
C5_OpenCloseIdempotent ==
    /\ (called = "open" /\ iters = 1) =>
           open(callerDst, NewPlane(given.w, given.h), 1, kern, oob).dst = callerDst
    /\ (called = "close" /\ iters = 1) =>
           close(callerDst, NewPlane(given.w, given.h), 1, kern, oob).dst = callerDst

\* C1: within one invocation whose rows run on two or more workers, the
\* percentages the progress sink receives never decrease, and the last one
\* received when the invocation has returned is 100.
C1_ProgressNonDecreasingTo100 ==
    /\ \A j \in 1..(Len(sink) - 1) : sink[j] <= sink[j + 1]
    /\ (pc = "returned" /\ Len(sink) > 0) => sink[Len(sink)] = 100

\* Whether the invocation's configuration is one the claims call an error
SquareLength(ints) == \E side \in 1..Len(ints) : side * side = Len(ints)

ValidOperation(op) == op \in {DILATE, ERODE, OPEN, CLOSE}

ConfigurationError == ~SquareLength(_kernel) \/ _iterations < 1

AllUnwritten(plane) == \A k \in DOMAIN plane.p : plane.p[k] = Unwritten

\* C6: when an invocation made while the core holds an earlier result has
\* failed (invalid operation selector, non-square kernel length or iteration
\* count < 1), the core still holds that earlier result plane, and that
\* plane is what getResultData returns.
C6_FailureKeepsPreviousResult ==
    (pc = "returned" /\ prior # NULL
        /\ (~ValidOperation(_operation) \/ ConfigurationError)) =>
        /\ _result = prior
        /\ got # NotCalled => got = prior

\* C7: with an operation selector outside Dilate..Close the invocation does
\* not report success, does no pixel work and makes no new result plane
\* available.
C7_InvalidOperationFails ==
    (pc = "returned" /\ ~ValidOperation(_operation)) =>
        /\ retval = FALSE
        /\ progress = 0
        /\ _result = prior

\* C8: with a kernel length that is not a positive perfect square, or an
\* iteration count < 1, the invocation fails before any destination pixel is
\* written and before any progress report is sent.
C8_ConfigurationErrorBeforeWork ==
    (pc # "idle" /\ ConfigurationError) =>
        /\ pc = "returned" => retval = FALSE
        /\ sink = << >>
        /\ _result # NULL => AllUnwritten(_result)

\* The plane the running stage started from: the image for the first
\* primitive call, the first call's last generation for the second
StageSource ==
    IF stage = 1 THEN image
    ELSE Gen(TruthOf(_operation, 1), Other(TruthOf(_operation, 1)), image,
             _iterations, BoolKernel(_kernel), oob)

RowOf(plane, y) == [x \in 0..(plane.w - 1) |-> P(plane, x, y)]

\* C10: no worker is inside a row of another iteration than the current one,
\* the exchange after an iteration has not happened while a row of it is
\* unwritten, and so the plane being read is the complete previous
\* generation and every written row is computed from it alone.
C10_BarrierBeforeExchange ==
    /\ \A w \in DOMAIN workers :
          workers[w].st = "scan" =>
              pc = "rows" /\ workers[w].it = iter /\ workers[w].stg = stage
    /\ pc = "rows" =>
          LET T == TruthOf(_operation, stage)
              k == BoolKernel(_kernel)
          IN  /\ srcPlane = Gen(T, Other(T), StageSource, iter, k, oob)
              /\ \A y \in DOMAIN rows :
                    rows[y] = "written" =>
                        RowOf(_result, y) = RowOf(OnePass(T, Other(T), srcPlane, k, oob), y)

\* The second iteration is running on a generation that differs from the
\* image, one row written and the other being scanned
C10_Witness ==
    /\ pc = "rows" /\ iter = 1
    /\ srcPlane # image
    /\ \E w1, w2 \in DOMAIN workers :
          /\ workers[w1].st = "scan"
          /\ workers[w2].st = "notify"
          /\ rows[workers[w2].y] = "written"

\* C9: after dilate, erode, open or close, for every iteration count, the
\* caller's source plane is pixel for pixel what it was before the call.
C9_SourceUnchanged ==
    called # "none" => callerSrc = given

\* A call that ran passes and produced a plane different from the source
C9_Witness ==
    /\ called = "open" /\ iters = 2
    /\ callerSrc = given
    /\ callerDst # given
    /\ \E k \in DOMAIN callerDst.p : callerDst.p[k] = Foreground

\* The pixel-wise negation of a plane: foreground and background swapped
Negate(X) == [X EXCEPT !.p = [k \in DOMAIN X.p |-> Other(X.p[k])]]

\* C11: with one iteration, erode(X) is the pixel-wise negation of
\* dilate(not X), for every plane and kernel.
C11_ErodeDualOfDilate ==
    (called = "erode" /\ iters = 1) =>
        callerDst = Negate(dilate(Negate(given), NewPlane(given.w, given.h), 1,
                                  kern, oob).dst)

\* An erosion that changed the plane and left both values in it
C11_Witness ==
    /\ called = "erode" /\ iters = 1
    /\ callerDst # given
    /\ Count(callerDst, Foreground) > 0
    /\ Count(callerDst, Background) > 0

\* A plane extended by one pixel of value v on all four sides, and the
\* inverse crop
Extend(X, v) ==
    Plane(X.w + 2, X.h + 2,
          [k \in 0..((X.w + 2) * (X.h + 2) - 1) |->
              LET x == k % (X.w + 2)
                  y == k \div (X.w + 2)
              IN  IF x = 0 \/ x = X.w + 1 \/ y = 0 \/ y = X.h + 1 THEN v
                  ELSE P(X, x - 1, y - 1)])

Crop(Y) ==
    Plane(Y.w - 2, Y.h - 2,
          [k \in 0..((Y.w - 2) * (Y.h - 2) - 1) |->
              P(Y, (k % (Y.w - 2)) + 1, (k \div (Y.w - 2)) + 1)])

AllActive3x3 == [i \in 1..9 |-> TRUE]

\* C12 as stated: with the all-active 3x3 kernel, one iteration of Dilate and
\* one of Erode each equal the transform of the plane extended with
\* background on all four sides, cropped back.
C12_OutOfBoundsIsBackground ==
    (iters = 1 /\ kern = AllActive3x3) =>
        /\ called = "dilate" =>
              callerDst = Crop(OnePass(Foreground, Background,
                                       Extend(given, Background), kern, oob))
        /\ called = "erode" =>
              callerDst = Crop(OnePass(Background, Foreground,
                                       Extend(given, Background), kern, oob))

\* C12 amended: out-of-bounds neighbours are skipped, which is background
\* padding for Dilate and foreground padding for Erode.
C12_OutOfBoundsIsSkipped ==
    (iters = 1 /\ kern = AllActive3x3) =>
        /\ called = "dilate" =>
              callerDst = Crop(OnePass(Foreground, Background,
                                       Extend(given, Background), kern, oob))
        /\ called = "erode" =>
              callerDst = Crop(OnePass(Background, Foreground,
                                       Extend(given, Foreground), kern, oob))

\* An erosion of a plane with a foreground border pixel that stays foreground
C12_Witness ==
    /\ called = "erode" /\ iters = 1 /\ kern = AllActive3x3
    /\ given.w = 3 /\ given.h = 3
    /\ P(callerDst, 0, 0) = Foreground
    /\ Count(callerDst, Background) > 0

\* C13: for every N >= 1, open leaves dilate^N(erode^N(source)) in the
\* destination and close leaves erode^N(dilate^N(source)): the second stage
\* reads the first stage's last generation and each stage runs N passes.
C13_CompoundIsStageAfterStage ==
    /\ (called = "open" /\ iters >= 1) =>
           callerDst = Gen(Foreground, Background,
                           Gen(Background, Foreground, given, iters, kern, oob),
                           iters, kern, oob)
    /\ (called = "close" /\ iters >= 1) =>
           callerDst = Gen(Background, Foreground,
                           Gen(Foreground, Background, given, iters, kern, oob),
                           iters, kern, oob)

\* An opening with two passes per stage whose first stage changed the plane
\* in each pass and whose result differs from that stage's result
C13_Witness ==
    /\ called = "open" /\ iters = 2
    /\ LET e1 == Gen(Background, Foreground, given, 1, kern, oob)
           e2 == Gen(Background, Foreground, given, 2, kern, oob)
       IN  /\ e1 # given
           /\ e2 # e1
           /\ callerDst # e2
           /\ callerDst # given

\* The number of row completions of the invocation: height times iterations,
\* twice that for Open and Close
ExpectedRows ==
    (IF _operation \in {OPEN, CLOSE} THEN 2 ELSE 1) * image.h * _iterations

\* C14: every report lies in [0, 100]; when an invocation with N >= 1
\* iterations of Dilate, Erode, Open or Close has returned, the sink has been
\* notified once per completed row (H*N times, 2*H*N for Open and Close),
\* the values reported are exactly 100*k/total for k = 1..total, and 100 was
\* reported exactly once.
C14_OneReportPerRow ==
    /\ \A j \in 1..Len(sink) : sink[j] >= 0 /\ sink[j] <= 100
    /\ (pc = "returned" /\ _operation \in {DILATE, ERODE, OPEN, CLOSE}
          /\ _iterations >= 1) =>
          /\ Len(sink) = ExpectedRows
          /\ {sink[j] : j \in 1..Len(sink)}
                = {(100 * k) \div ExpectedRows : k \in 1..ExpectedRows}
          /\ Cardinality({j \in 1..Len(sink) : sink[j] = 100}) = 1

\* An Open of two iterations on two rows has returned with its eight reports
C14_Witness ==
    /\ pc = "returned" /\ _operation = OPEN /\ _iterations = 2 /\ image.h = 2
    /\ Len(sink) = 8

\* C15: whichever worker takes which row and however their steps interleave,
\* the result plane of a returned invocation is the one the rows give when
\* they are processed in order by a single thread.
C15_ResultIndependentOfSchedule ==
    pc = "returned" =>
        _result = processed(image, _kernel, _iterations, _operation, oob).dst

\* A returned two-iteration invocation whose reports arrived out of order
\* (its workers overlapped) and whose result differs from the image
C15_Witness ==
    /\ pc = "returned" /\ _iterations = 2 /\ image.h = 2
    /\ \E j \in 1..(Len(sink) - 1) : sink[j] > sink[j + 1]
    /\ _result # image
    /\ Count(_result, Foreground) > 0

Coords(X) == (0..(X.w - 1)) \X (0..(X.h - 1))

Near(a, b) == a - b \in {-1, 0, 1}

\* C17: one Dilate iteration with the all-active 3x3 kernel on a raster that
\* is background except for a single foreground pixel (in a corner, on an
\* edge or inside) gives foreground exactly at that pixel and its 8-neighbours
\* that lie in the raster and background elsewhere; every coordinate read is
\* a coordinate of the raster, and the plane written has the raster's
\* coordinates and no other.
C17_SpeckDilatesToInBoundsNeighbours ==
    (called = "dilate" /\ iters = 1 /\ kern = AllActive3x3
        /\ given \in SpeckPlanes(given.w, given.h)) =>
        /\ \A c \in Coords(given) :
              P(callerDst, c[1], c[2]) =
                 IF \E s \in Coords(given) :
                        /\ P(given, s[1], s[2]) = Foreground
                        /\ Near(c[1], s[1]) /\ Near(c[2], s[2])
                 THEN Foreground ELSE Background
        /\ \A c \in Coords(given) :
              readsFrom(Foreground, given, c[1], c[2], kern, kernelOffset(kern),
                        oob, 0, 0) \subseteq Coords(given)
        /\ DOMAIN callerDst.p = DOMAIN given.p
        /\ callerDst.w = given.w /\ callerDst.h = given.h

\* The speck in the corner (0,0) of a 3x3 raster has been dilated to the four
\* pixels (0,0), (1,0), (0,1), (1,1)
C17_Witness ==
    /\ called = "dilate" /\ iters = 1 /\ kern = AllActive3x3
    /\ given.w = 3 /\ given.h = 3
    /\ given \in SpeckPlanes(3, 3) /\ P(given, 0, 0) = Foreground
    /\ {c \in Coords(callerDst) : P(callerDst, c[1], c[2]) = Foreground}
          = {<<0, 0>>, <<1, 0>>, <<0, 1>>, <<1, 1>>}

\* The planes with exactly one background pixel
HolePlanes(w, h) == {pl \in Planes(w, h) : Count(pl, Background) = 1}

AllOf(X, v) == \A k \in DOMAIN X.p : X.p[k] = v

\* C18: with the all-active 3x3 kernel and one iteration, on a raster at
\* least 3 wide and 3 high, Open of a background raster with one foreground
\* pixel (anywhere) gives an all-background plane, and Close of a foreground
\* raster with one background pixel (anywhere) gives an all-foreground plane.
C18_SpeckRemovedHoleFilled ==
    (iters = 1 /\ kern = AllActive3x3 /\ given.w >= 3 /\ given.h >= 3) =>
        /\ (called = "open" /\ given \in SpeckPlanes(given.w, given.h))
              => AllOf(callerDst, Background)
        /\ (called = "close" /\ given \in HolePlanes(given.w, given.h))
              => AllOf(callerDst, Foreground)

\* Close has filled the hole in a corner of a 3x3 raster
C18_Witness ==
    /\ called = "close" /\ iters = 1 /\ kern = AllActive3x3
    /\ given.w = 3 /\ given.h = 3
    /\ given \in HolePlanes(3, 3) /\ P(given, 2, 2) = Background
    /\ AllOf(callerDst, Foreground)

\* The truth value of the first pass of a primitive: dilate and close start
\* with applyMorphology<1,0>, erode and open with applyMorphology<0,1>
FirstT(name) == IF name \in {"dilate", "close"} THEN Foreground ELSE Background

\* C19: for a kernel whose length L is a positive perfect square, of odd or
\* of even side, every kernel flag read during the neighbourhood scan of any
\* pixel of any raster is read at an index in 0..L-1.
C19_KernelIndexBelowLength ==
    (called # "none" /\ iters >= 1 /\ SquareLength(kern)) =>
        \A c \in Coords(given) :
            \A i \in indicesFrom(FirstT(called), given, c[1], c[2], kern,
                                 kernelOffset(kern), oob, 0, 0) :
                i >= 0 /\ i < Len(kern)

\* The place of a mode in the order DETECTION, CALIBRATION, CALIBRATED
Rank(mode) == IF mode = DETECTION THEN 0 ELSE IF mode = CALIBRATION THEN 1 ELSE 2

Forward(a, b) == Rank(b) - Rank(a) \in {0, 1}

\* C20: over any sequence of calls _mode only moves forward in the order
\* DETECTION, CALIBRATION, CALIBRATED, one place per assignment, and never
\* back: it leaves DETECTION only in a call at whose end more than 10
\* detections are stored, it becomes CALIBRATED only in a call in which
\* runCalibration returned true, a call whose calibration failed leaves it
\* CALIBRATION, and from CALIBRATED it never changes.
C20_ModeOnlyMovesForward ==
    [][ /\ Rank(_mode') >= Rank(_mode)
        /\ _mode = CALIBRATED => _mode' = CALIBRATED
        /\ (_mode = DETECTION /\ _mode' # DETECTION) => _imagePoints' > GoodImages
        /\ (_mode # CALIBRATED /\ _mode' = CALIBRATED) => calResult' = "true"
        /\ CameraCalibration_processInputData =>
              /\ Forward(_mode, midMode') /\ Forward(midMode', _mode')
              /\ calResult' = "false" => _mode' = CALIBRATION
      ]_vars

\* The mode has left DETECTION with 11 stored detections and a failed
\* calibration has left it CALIBRATION
C20_Witness ==
    /\ _mode = CALIBRATION /\ calResult = "false" /\ branch = "run"
    /\ _imagePoints = GoodImages + 1

\* The last n calls, when at least n were made and each read skipFrames = s
LastRead(n, s) ==
    /\ Len(recent) >= n
    /\ \A j \in (Len(recent) - n + 1)..Len(recent) : recent[j].s = s

RunsAmongLast(n) ==
    Cardinality({j \in (Len(recent) - n + 1)..Len(recent) : recent[j].way = "run"})

\* C21: while the calls read one value s >= 1 of skipFrames, _frameCounter is
\* in 0..s after every call; of any s+1 consecutive calls exactly one runs
\* detection/calibration, the one that finds _frameCounter = s and sets it
\* to 0; each of the others only copies the input to the preview and leaves
\* _mode and _imagePoints as they were.
C21_OneRunPerSkipPlusOneCalls ==
    /\ [](branch # "none" => (_frameCounter >= 0 /\ _frameCounter <= skipFrames))
    /\ [](\A s \in 1..MaxSkip : LastRead(s + 1, s) => RunsAmongLast(s + 1) = 1)
    /\ [][CameraCalibration_processInputData =>
             /\ (branch' = "run" /\ LastRead(1, skipFrames')) =>
                    (_frameCounter = skipFrames' /\ _frameCounter' = 0)
             /\ branch' = "skipped" =>
                    /\ _preview' = "input"
                    /\ _mode' = _mode /\ _imagePoints' = _imagePoints
       ]_vars

\* Three consecutive calls have read skipFrames = 2; the last of them found
\* _frameCounter = 2 and ran detection, the two before it were skipped
C21_Witness ==
    /\ LastRead(3, 2) /\ branch = "run" /\ _frameCounter = 0
    /\ recent[Len(recent) - 1].way = "skipped"
    /\ recent[Len(recent) - 2].way = "skipped"
    /\ _imagePoints > 0

====
